---- MODULE Spec2Model ----
(***************************************************************************)
(* PreloadPlugin (src/index.js): resource-hint links built from the files  *)
(* of a compilation's chunks and prepended to the head-tag list of each    *)
(* generated HTML document through the before/after hooks of the HTML      *)
(* plugin.                                                                 *)
(*                                                                         *)
(* Strings that the code inspects (file paths, URLs, patterns) are         *)
(* sequences of code units, so that concatenation, lexicographic sorting   *)
(* and pattern tests are computed as the code computes them.               *)
(***************************************************************************)
EXTENDS Integers, Sequences, FiniteSets, TLC

VARIABLES options, compilation, htmlPluginData, pc, resourceHints, builtFor

vars == <<options, compilation, htmlPluginData, pc, resourceHints, builtFor>>

(***************************************************************************)
(* Bounds                                                                  *)
(***************************************************************************)
NumDocs == 2

Docs == 1..NumDocs

(***************************************************************************)
(* JavaScript values                                                       *)
(***************************************************************************)
\* an absent / undefined value and a present one
Undefined == [given |-> FALSE]

Some(v) == [given |-> TRUE, value |-> v]

\* truthiness of an option that is either undefined or an array/object/non-empty string
Truthy(o) == o.given

\* Array.prototype.includes / indexOf(x) !== -1
Includes(seq, x) == \E i \in 1..Len(seq) : seq[i] = x

Range(seq) == {seq[i] : i \in 1..Len(seq)}

(***************************************************************************)
(* Strings as sequences of code units                                      *)
(***************************************************************************)
QMARK == <<63>>

AMP == <<38>>

\* String.prototype.indexOf(needle) !== -1, also RegExp.test for a literal pattern
Contains(s, needle) ==
    \E i \in 1..(Len(s) - Len(needle) + 1) : SubSeq(s, i, i + Len(needle) - 1) = needle

\* a < b in code-unit order, the order of the default Array.prototype.sort
LexLess(a, b) ==
    \E k \in 1..(Len(b)) :
        /\ k <= Len(a) + 1
        /\ \A i \in 1..(k - 1) : a[i] = b[i]
        /\ \/ k = Len(a) + 1
           \/ (k <= Len(a) /\ a[k] < b[k])

\* file names of the compilation
A_JS == <<97, 46, 106, 115>>

B_CSS == <<98, 46, 99, 115, 115>>

C_JS == <<99, 46, 106, 115>>

F_TTF == <<102, 46, 116, 116, 102>>

L_TXT == <<108, 46, 116, 120, 116>>

S_JS == <<115, 46, 106, 115>>

\* extensions and literal patterns
EXT_JS == <<46, 106, 115>>

EXT_CSS == <<46, 99, 115, 115>>

EXT_TTF == <<46, 116, 116, 102>>

EXT_WOFF == <<46, 119, 111, 102, 102>>

EXT_WOFF2 == <<46, 119, 111, 102, 102, 50>>

EXT_EOT == <<46, 101, 111, 116>>

EXT_PNG == <<46, 112, 110, 103>>

PAT_S_DOT == <<115, 46>>

PAT_JS == <<106, 115>>

PAT_CSS == <<99, 115, 115>>

\* the text after the last "." of the path, "." included (empty when there is none)
RECURSIVE ExtName(_)
ExtName(s) ==
    IF s = <<>> THEN <<>>
    ELSE IF ~Contains(Tail(s), <<46>>) THEN (IF Head(s) = 46 THEN s ELSE <<>>)
    ELSE ExtName(Tail(s))

(***************************************************************************)
(* The compilation: chunks in the order the host lists them, and the       *)
(* emitted assets.                                                         *)
(***************************************************************************)
Chunks ==
    << [names |-> <<"main">>, idHints |-> <<>>, files |-> <<S_JS, B_CSS>>,
        size |-> 30, hash |-> "h-main", initial |-> TRUE],
       [names |-> <<>>, idHints |-> <<"vendor">>, files |-> <<A_JS, S_JS>>,
        size |-> 20, hash |-> "h-vendor", initial |-> TRUE],
       [names |-> <<>>, idHints |-> <<>>, files |-> <<F_TTF, C_JS>>,
        size |-> 10, hash |-> "h-lazy", initial |-> FALSE] >>

Assets == <<S_JS, B_CSS, A_JS, F_TTF, C_JS, L_TXT>>

CompilationHash == <<104>>

PublicPaths == {Undefined, Some(<<47, 47, 99, 47>>)}

\* compilation.outputOptions.publicPath || ''
PublicPath(comp) ==
    IF Truthy(comp.outputOptions.publicPath) /\ comp.outputOptions.publicPath.value # <<>>
    THEN comp.outputOptions.publicPath.value
    ELSE <<>>

(***************************************************************************)
(* lib/extract-chunks: the candidate chunks of an inclusion mode.          *)
(* "allAssets" yields every asset file of the compilation as one group.    *)
(***************************************************************************)
extractChunks(comp, optionsInclude) ==
    CASE optionsInclude = "allAssets" -> << [files |-> comp.assets] >>
      [] optionsInclude = "allChunks" -> comp.chunks
      [] optionsInclude = "initial" -> SelectSeq(comp.chunks, LAMBDA c : c.initial)
      [] optionsInclude = "asyncChunks" -> SelectSeq(comp.chunks, LAMBDA c : ~c.initial)

\* the path of a URL, without its query
RECURSIVE StripQuery(_)
StripQuery(url) ==
    IF url = <<>> \/ Head(url) = 63 THEN <<>>
    ELSE <<Head(url)>> \o StripQuery(Tail(url))

\* the file paths one asset-info entry of the document refers to
ReferencedPaths(info) ==
    (IF "entry" \in DOMAIN info THEN {StripQuery(info.entry)} ELSE {})
        \cup {StripQuery(info.css[i]) : i \in 1..Len(info.css)}

(***************************************************************************)
(* lib/does-chunk-belong-to-html: true iff some file owned by the chunk    *)
(* appears among the file paths the HTML document references.              *)
(***************************************************************************)
doesChunkBelongToHTML(chunk, comp, htmlAssetsChunks) ==
    \E i \in 1..Len(chunk.files) :
        \E info \in htmlAssetsChunks :
            (PublicPath(comp) \o chunk.files[i]) \in ReferencedPaths(info)

(***************************************************************************)
(* lib/determine-as-value: a fixed string policy, or by file extension.    *)
(***************************************************************************)
determineAsValue(href, file, optionsAs) ==
    IF Truthy(optionsAs) THEN Some(optionsAs.value)
    ELSE LET ext == ExtName(file) IN
         CASE ext = EXT_CSS -> Some("style")
           [] ext = EXT_JS -> Some("script")
           [] ext \in {EXT_WOFF, EXT_WOFF2, EXT_TTF, EXT_EOT} -> Some("font")
           [] ext = EXT_PNG -> Some("image")
           [] OTHER -> Undefined

(***************************************************************************)
(* generateLinks                                                           *)
(***************************************************************************)
\* Object.values(htmlPluginData.assets.chunks)
ObjectValues(obj) == {obj[k] : k \in DOMAIN obj}

\* mutant: the membership filter is never applied
htmlChunksUnfiltered(opts, comp, data) == extractChunks(comp, opts.include)

\* the chunks whose files are hinted for this document
htmlChunks(opts, comp, data) ==
    IF opts.include = "allAssets"
    THEN extractChunks(comp, opts.include)
    ELSE SelectSeq(extractChunks(comp, opts.include),
                   LAMBDA chunk : doesChunkBelongToHTML(chunk, comp,
                                      ObjectValues(data.assets.chunks.value)))

\* htmlChunks.reduce((accumulated, chunk) => accumulated.concat(chunk.files), [])
RECURSIVE allFiles(_)
allFiles(chunks) ==
    IF chunks = <<>> THEN <<>>
    ELSE Head(chunks).files \o allFiles(Tail(chunks))

\* mutant: the flattened list is used without de-duplication
uniqueFilesNoDedup(files) == files

\* [...new Set(files)]: first occurrences, in insertion order
RECURSIVE uniqueFiles(_)
uniqueFiles(files) ==
    IF files = <<>> THEN <<>>
    ELSE LET init == uniqueFiles(SubSeq(files, 1, Len(files) - 1))
             last == files[Len(files)]
         IN IF Includes(init, last) THEN init ELSE Append(init, last)

\* regex.test(file) for a literal pattern
Test(regex, file) == Contains(file, regex)

passesWhitelist(opts, file) ==
    \/ ~Truthy(opts.fileWhitelist)
    \/ \E i \in 1..Len(opts.fileWhitelist.value) : Test(opts.fileWhitelist.value[i], file)

\* mutant: fileBlacklist.some(...) instead of fileBlacklist.every(...)
passesBlacklistSome(opts, file) ==
    \/ ~Truthy(opts.fileBlacklist)
    \/ \E i \in 1..Len(opts.fileBlacklist.value) : ~Test(opts.fileBlacklist.value[i], file)

passesBlacklist(opts, file) ==
    \/ ~Truthy(opts.fileBlacklist)
    \/ \A i \in 1..Len(opts.fileBlacklist.value) : ~Test(opts.fileBlacklist.value[i], file)

filteredFiles(opts, files) ==
    SelectSeq(SelectSeq(files, LAMBDA file : passesWhitelist(opts, file)),
              LAMBDA file : passesBlacklist(opts, file))

\* Array.prototype.sort() without a comparator: ascending code-unit order
RECURSIVE Insert(_, _)
Insert(sorted, x) ==
    IF sorted = <<>> THEN <<x>>
    ELSE IF LexLess(x, Head(sorted)) THEN <<x>> \o sorted
    ELSE <<Head(sorted)>> \o Insert(Tail(sorted), x)

RECURSIVE sortedFilteredFiles(_)
sortedFilteredFiles(files) ==
    IF files = <<>> THEN <<>>
    ELSE Insert(sortedFilteredFiles(Tail(files)), Head(files))

\* mutant: the as attribute is computed whatever rel is
linkAttributesAnyRel(opts, comp, file) ==
    LET href == PublicPath(comp) \o file
        as == determineAsValue(href, file, opts.as)
    IN IF as = Some("font")
       THEN [href |-> href, rel |-> opts.rel, as |-> as, crossorigin |-> ""]
       ELSE [href |-> href, rel |-> opts.rel, as |-> as]

\* mutant: crossorigin is set only for a font whose href is cross-origin
linkAttributesCrossOriginHref(opts, comp, file) ==
    LET href == PublicPath(comp) \o file
        as == determineAsValue(href, file, opts.as)
    IN IF opts.rel = "preload"
       THEN IF as = Some("font") /\ Len(href) >= 2 /\ SubSeq(href, 1, 2) = <<47, 47>>
            THEN [href |-> href, rel |-> opts.rel, as |-> as, crossorigin |-> ""]
            ELSE [href |-> href, rel |-> opts.rel, as |-> as]
       ELSE [href |-> href, rel |-> opts.rel]

\* the attributes of the link of one file
linkAttributes(opts, comp, file) ==
    LET href == PublicPath(comp) \o file
        as == determineAsValue(href, file, opts.as)
    IN IF opts.rel = "preload"
       THEN IF as = Some("font")
            THEN [href |-> href, rel |-> opts.rel, as |-> as, crossorigin |-> ""]
            ELSE [href |-> href, rel |-> opts.rel, as |-> as]
       ELSE [href |-> href, rel |-> opts.rel]

link(opts, comp, file) ==
    [tagName |-> "link", attributes |-> linkAttributes(opts, comp, file), voidTag |-> TRUE]

\* the value generateLinks assigns to this.resourceHints
links(opts, comp, data) ==
    LET files == sortedFilteredFiles(filteredFiles(opts,
                     uniqueFiles(allFiles(htmlChunks(opts, comp, data)))))
    IN [i \in 1..Len(files) |-> link(opts, comp, files[i])]

(***************************************************************************)
(* apply: skip, appendHash, buildReducer                                   *)
(***************************************************************************)
skip(opts, data) ==
    LET htmlFilename == data.plugin.options.filename
        exclude == opts.excludeHtmlNames
        include == opts.includeHtmlNames
    IN \/ (Truthy(include) /\ ~Includes(include.value, htmlFilename))
       \/ (Truthy(exclude) /\ Includes(exclude.value, htmlFilename))

appendHash(url, hash) ==
    IF url = <<>> THEN url
    ELSE url \o (IF ~Contains(url, QMARK) THEN QMARK ELSE AMP) \o hash

\* /.js($|\?)/ and /.css($|\?)/: any one character, the letters, then the end or "?"
TestExt(letters, chunkFile) ==
    \E i \in 2..(Len(chunkFile) - Len(letters) + 1) :
        /\ SubSeq(chunkFile, i, i + Len(letters) - 1) = letters
        /\ \/ i + Len(letters) - 1 = Len(chunkFile)
           \/ chunkFile[i + Len(letters)] = 63

\* chunk.names[0] || chunk.idHints[0], as an object key
chunkName(chunk) ==
    IF chunk.names # <<>> /\ chunk.names[1] # "" THEN chunk.names[1]
    ELSE IF chunk.idHints # <<>> THEN chunk.idHints[1]
    ELSE "undefined"

\* Object.assign(target, source)
ObjectAssign(target, source) ==
    [k \in (DOMAIN target) \cup (DOMAIN source) |->
        IF k \in DOMAIN source THEN source[k] ELSE target[k]]

\* the function buildReducer returns, applied to (chunks_, chunk)
reducer(comp, data, chunks_, chunk) ==
    LET publicPath == PublicPath(comp)
        chunkFiles == [i \in 1..Len(chunk.files) |-> publicPath \o chunk.files[i]]
        hashed == IF data.plugin.options.hash
                  THEN [i \in 1..Len(chunkFiles) |-> appendHash(chunkFiles[i], comp.hash)]
                  ELSE chunkFiles
        jsFiles == SelectSeq(hashed, LAMBDA f : TestExt(PAT_JS, f))
        css == SelectSeq(hashed, LAMBDA f : TestExt(PAT_CSS, f))
        info == IF jsFiles # <<>> /\ jsFiles[1] # <<>>
                THEN [size |-> chunk.size, entry |-> jsFiles[1], hash |-> chunk.hash,
                      css |-> css]
                ELSE [css |-> css]
    IN IF \E i \in 1..Len(chunkFiles) :
              \/ Includes(data.assets.js, chunkFiles[i])
              \/ Includes(data.assets.css, chunkFiles[i])
       THEN ObjectAssign(chunks_, [k \in {chunkName(chunk)} |-> info])
       ELSE chunks_

\* chunks.reduce(buildReducer(compilation, htmlPluginData), {})
RECURSIVE reduceChunks(_, _, _)
reduceChunks(comp, data, chunks) ==
    IF chunks = <<>> THEN [k \in {} |-> Undefined]
    ELSE reducer(comp, data,
                 reduceChunks(comp, data, SubSeq(chunks, 1, Len(chunks) - 1)),
                 chunks[Len(chunks)])

\* the descriptor after the version >= 4 branch of the before-hook
mergeChunks(comp, data) ==
    [data EXCEPT !.assets.chunks =
        Some(ObjectAssign(IF Truthy(data.assets.chunks) THEN data.assets.chunks.value
                          ELSE [k \in {} |-> Undefined],
                          reduceChunks(comp, data, comp.chunks)))]

(***************************************************************************)
(* The host: the HTML plugin's documents                                   *)
(***************************************************************************)
Versions == {3, 4}

HtmlNames == <<"index.html", "admin.html", "app.html">>

DocKind(d) == ((d - 1) % 3) + 1

\* the script and style files a document references
DocJs(d) == CASE DocKind(d) = 1 -> <<S_JS>> [] DocKind(d) = 2 -> <<A_JS>> [] OTHER -> <<C_JS>>

DocCss(d) == IF DocKind(d) = 1 THEN <<B_CSS>> ELSE <<>>

MetaTag == [tagName |-> "meta", attributes |-> [charset |-> "utf-8"], voidTag |-> TRUE]

StyleTag(href) ==
    [tagName |-> "link", attributes |-> [href |-> href, rel |-> "stylesheet"], voidTag |-> TRUE]

\* the head tags the host assembled for a document
HostHead(comp, d) ==
    CASE DocKind(d) = 1 -> <<MetaTag, StyleTag(PublicPath(comp) \o B_CSS)>>
      [] DocKind(d) = 2 -> <<>>
      [] OTHER -> <<MetaTag>>

\* an asset map a version >= 4 host may already carry: one entry without files
PresetChunks == [k \in {"main"} |-> [css |-> <<>>]]

\* the descriptor the host hands to the hooks of document d; a host before version 4
\* supplies the chunk mapping itself, a later one supplies none or a preset one
HostData(comp, version, hash, preset, d) ==
    LET base == [plugin |-> [version |-> version,
                             options |-> [filename |-> HtmlNames[DocKind(d)], hash |-> hash]],
                 assets |-> [js |-> [i \in 1..Len(DocJs(d)) |-> PublicPath(comp) \o DocJs(d)[i]],
                             css |-> [i \in 1..Len(DocCss(d)) |-> PublicPath(comp) \o DocCss(d)[i]],
                             chunks |-> IF version >= 4 /\ preset
                                        THEN Some(PresetChunks) ELSE Undefined],
                 head |-> IF version >= 4 THEN <<>> ELSE HostHead(comp, d),
                 headTags |-> IF version >= 4 THEN HostHead(comp, d) ELSE <<>>]
    IN IF version >= 4 THEN base ELSE mergeChunks(comp, base)

(***************************************************************************)
(* Plugin options (constructor)                                            *)
(***************************************************************************)
OptionSpace ==
    [rel : {"preload", "prefetch"},
     include : {"allChunks", "initial", "asyncChunks", "allAssets"},
     as : {Undefined, Some("font")},
     fileWhitelist : {Undefined, Some(<<EXT_JS, PAT_CSS>>)},
     fileBlacklist : {Undefined, Some(<<PAT_S_DOT, EXT_TTF>>)},
     includeHtmlNames : {Undefined, Some(<<"index.html", "app.html">>)},
     excludeHtmlNames : {Undefined, Some(<<"index.html">>)}]

Init ==
    /\ options \in OptionSpace
    /\ \E publicPath \in PublicPaths :
          compilation = [outputOptions |-> [publicPath |-> publicPath],
                         hash |-> CompilationHash, chunks |-> Chunks, assets |-> Assets]
    /\ \E version \in Versions, hash \in BOOLEAN, preset \in BOOLEAN :
          htmlPluginData = [d \in Docs |-> HostData(compilation, version, hash, preset, d)]
    /\ pc = [d \in Docs |-> "start"]
    /\ resourceHints = Undefined
    /\ builtFor = 0

(***************************************************************************)
(* The hooks                                                               *)
(***************************************************************************)
\* mutant: the exclusion check comes before the version >= 4 merge
beforeDataSkipFirst(d) ==
    IF htmlPluginData[d].plugin.version >= 4 /\ ~skip(options, htmlPluginData[d])
    THEN mergeChunks(compilation, htmlPluginData[d])
    ELSE htmlPluginData[d]

\* document d as the before-hook leaves it
beforeData(d) ==
    IF htmlPluginData[d].plugin.version >= 4
    THEN mergeChunks(compilation, htmlPluginData[d])
    ELSE htmlPluginData[d]

\* mutant: links are generated only while none are pending
BeforeHookKeepPending(d) ==
    /\ pc[d] = "start"
    /\ htmlPluginData' = [htmlPluginData EXCEPT ![d] = beforeData(d)]
    /\ IF skip(options, beforeData(d)) \/ Truthy(resourceHints)
       THEN UNCHANGED <<resourceHints, builtFor>>
       ELSE /\ resourceHints' = Some(links(options, compilation, beforeData(d)))
            /\ builtFor' = d
    /\ pc' = [pc EXCEPT ![d] = "before"]
    /\ UNCHANGED <<options, compilation>>

BeforeHook(d) ==
    /\ pc[d] = "start"
    /\ htmlPluginData' = [htmlPluginData EXCEPT ![d] = beforeData(d)]
    /\ IF skip(options, beforeData(d))
       THEN UNCHANGED <<resourceHints, builtFor>>
       ELSE /\ resourceHints' = Some(links(options, compilation, beforeData(d)))
            /\ builtFor' = d
    /\ pc' = [pc EXCEPT ![d] = "before"]
    /\ UNCHANGED <<options, compilation>>

\* mutant: the after-hook does not check the exclusion
afterDataNoSkip(d) ==
    LET data == htmlPluginData[d] IN
    IF Truthy(resourceHints)
    THEN IF data.plugin.version >= 4
         THEN [data EXCEPT !.headTags = resourceHints.value \o data.headTags]
         ELSE [data EXCEPT !.head = resourceHints.value \o data.head]
    ELSE data

\* mutant: the pending links are appended after the head tags
afterDataAppend(d) ==
    LET data == htmlPluginData[d] IN
    IF skip(options, data) THEN data
    ELSE IF Truthy(resourceHints)
    THEN IF data.plugin.version >= 4
         THEN [data EXCEPT !.headTags = data.headTags \o resourceHints.value]
         ELSE [data EXCEPT !.head = data.head \o resourceHints.value]
    ELSE data

\* document d as the after-hook leaves it
afterData(d) ==
    LET data == htmlPluginData[d] IN
    IF skip(options, data) THEN data
    ELSE IF Truthy(resourceHints)
    THEN IF data.plugin.version >= 4
         THEN [data EXCEPT !.headTags = resourceHints.value \o data.headTags]
         ELSE [data EXCEPT !.head = resourceHints.value \o data.head]
    ELSE data

AfterHook(d) ==
    /\ pc[d] = "before"
    /\ htmlPluginData' = [htmlPluginData EXCEPT ![d] = afterData(d)]
    /\ pc' = [pc EXCEPT ![d] = "done"]
    /\ UNCHANGED <<options, compilation, resourceHints, builtFor>>

Next == \E d \in Docs : BeforeHook(d) \/ AfterHook(d)

Spec == Init /\ [][Next]_vars

\* the host's documented order: one document's hook pair at a time
BeforeHookInTurn(d) ==
    /\ \A e \in Docs : pc[e] # "before"
    /\ BeforeHook(d)

NextSeq == \E d \in Docs : BeforeHookInTurn(d) \/ AfterHook(d)

SpecSeq == Init /\ [][NextSeq]_vars

(***************************************************************************)
(* Vocabulary of the properties                                            *)
(***************************************************************************)
\* the head-tag list of a descriptor: headTags on version >= 4 hosts, head before
HeadList(data) == IF data.plugin.version >= 4 THEN data.headTags ELSE data.head

\* document d is excluded by the per-document name lists
Excluded(d) ==
    LET name == HtmlNames[DocKind(d)] IN
    \/ (options.excludeHtmlNames.given /\ name \in Range(options.excludeHtmlNames.value))
    \/ (options.includeHtmlNames.given /\ name \notin Range(options.includeHtmlNames.value))

\* the tags placed before the head tags the host assembled
Injected(d) ==
    LET list == HeadList(htmlPluginData[d])
    IN SubSeq(list, 1, Len(list) - Len(HostHead(compilation, d)))

BeforeStep(d) == pc[d] = "start" /\ pc'[d] = "before"

AfterStep(d) == pc[d] = "before" /\ pc'[d] = "done"

Pending == IF resourceHints.given THEN resourceHints.value ELSE <<>>

\* the file path of a link: its href without the public path
FileOf(tag) ==
    SubSeq(tag.attributes.href, Len(PublicPath(compilation)) + 1, Len(tag.attributes.href))

\* the file paths of the chunks selected for document d
SelectedFiles(d) ==
    LET selected == htmlChunks(options, compilation, htmlPluginData[d])
    IN UNION {Range(selected[i].files) : i \in 1..Len(selected)}

MatchesAny(patterns, file) ==
    \E i \in 1..Len(patterns) :
        \E k \in 1..Len(file) :
            /\ k + Len(patterns[i]) - 1 <= Len(file)
            /\ \A j \in 1..Len(patterns[i]) : file[k + j - 1] = patterns[i][j]

\* C1: whatever the order of the hook firings, the after-hook of a document
\* excluded by excludeHtmlNames or by includeHtmlNames leaves its head-tag list
\* as it was: no link is added.
C1_ExcludedHeadUnchanged ==
    [][\A d \in Docs :
          (AfterStep(d) /\ Excluded(d)) =>
              HeadList(htmlPluginData'[d]) = HeadList(htmlPluginData[d])]_vars

C1_Witness ==
    \E d \in Docs :
        /\ Excluded(d)
        /\ pc[d] = "done"
        /\ Len(Pending) > 0
        /\ builtFor # d
        /\ HeadList(htmlPluginData[d]) = HostHead(compilation, d)

\* C2: when the host runs one document's hook pair at a time, every non-excluded
\* document that has passed its after-hook has in its head exactly the links
\* generateLinks builds from that document's own descriptor, before the host's tags.
C2_OwnLinksWhenSequential ==
    \A d \in Docs :
        (pc[d] = "done" /\ ~Excluded(d)) =>
            HeadList(htmlPluginData[d]) =
                links(options, compilation, htmlPluginData[d]) \o HostHead(compilation, d)

C2_Witness ==
    \E d, e \in Docs :
        /\ d # e
        /\ pc[d] = "done" /\ pc[e] = "done"
        /\ ~Excluded(d) /\ ~Excluded(e)
        /\ Len(Injected(d)) > 0 /\ Len(Injected(e)) > 0
        /\ Injected(d) # Injected(e)

\* C3: the after-hook of a non-excluded document finds a pending list and sets the
\* head-tag list to the pending links, in their order (ascending by path), followed
\* by the previous head tags in their order.
C3_PendingPrepended ==
    [][\A d \in Docs :
          (AfterStep(d) /\ ~Excluded(d)) =>
              LET old == HeadList(htmlPluginData[d])
                  new == HeadList(htmlPluginData'[d])
              IN /\ resourceHints.given
                 /\ Len(new) = Len(resourceHints.value) + Len(old)
                 /\ \A i \in 1..Len(resourceHints.value) : new[i] = resourceHints.value[i]
                 /\ \A j \in 1..Len(old) : new[Len(resourceHints.value) + j] = old[j]
                 /\ \A i, j \in 1..Len(resourceHints.value) :
                        i < j => LexLess(new[i].attributes.href, new[j].attributes.href)]_vars

C3_Witness ==
    \E d \in Docs :
        /\ ~Excluded(d)
        /\ pc[d] = "done"
        /\ Len(HostHead(compilation, d)) >= 2
        /\ Len(Injected(d)) >= 2
        /\ Injected(d) = Pending

\* C4: without fileWhitelist and fileBlacklist, the list generateLinks builds has
\* exactly one link per distinct file path of the selected chunks, in ascending
\* lexicographic order of file path.
C4_OneLinkPerFileSorted ==
    (resourceHints.given /\ ~options.fileWhitelist.given /\ ~options.fileBlacklist.given) =>
        LET built == resourceHints.value
            files == SelectedFiles(builtFor)
        IN /\ Len(built) = Cardinality(files)
           /\ {FileOf(built[i]) : i \in 1..Len(built)} = files
           /\ \A i \in 1..Len(built) :
                 built[i].attributes.href = PublicPath(compilation) \o FileOf(built[i])
           /\ \A i, j \in 1..Len(built) : i < j => LexLess(FileOf(built[i]), FileOf(built[j]))

C4_Witness ==
    /\ resourceHints.given
    /\ ~options.fileWhitelist.given /\ ~options.fileBlacklist.given
    /\ Len(resourceHints.value) >= 3
    /\ LET selected == htmlChunks(options, compilation, htmlPluginData[builtFor])
       IN \E i, j \in 1..Len(selected) :
              i # j /\ Range(selected[i].files) \cap Range(selected[j].files) # {}

\* C5: with fileWhitelist and fileBlacklist both configured, the linked paths are
\* exactly the selected paths that match some whitelist pattern and no blacklist
\* pattern; a path matching both lists is not linked.
C5_BlacklistWins ==
    (resourceHints.given /\ options.fileWhitelist.given /\ options.fileBlacklist.given) =>
        {FileOf(resourceHints.value[i]) : i \in 1..Len(resourceHints.value)} =
            {f \in SelectedFiles(builtFor) :
                /\ MatchesAny(options.fileWhitelist.value, f)
                /\ ~MatchesAny(options.fileBlacklist.value, f)}

C5_Witness ==
    /\ resourceHints.given
    /\ options.fileWhitelist.given /\ options.fileBlacklist.given
    /\ Len(resourceHints.value) > 0
    /\ \E f \in SelectedFiles(builtFor) :
          /\ MatchesAny(options.fileWhitelist.value, f)
          /\ MatchesAny(options.fileBlacklist.value, f)

\* every link the plugin built: the pending list and the links injected into heads
BuiltLinks ==
    Range(Pending) \cup UNION {Range(Injected(d)) : d \in Docs}

\* C6: with rel "prefetch", no link generateLinks built, pending or injected into a
\* head, carries an as or a crossorigin attribute, fonts and a configured as included.
C6_PrefetchNoAsNoCrossorigin ==
    options.rel = "prefetch" =>
        \A tag \in BuiltLinks :
            /\ "as" \notin DOMAIN tag.attributes
            /\ "crossorigin" \notin DOMAIN tag.attributes

C6_Witness ==
    /\ options.rel = "prefetch"
    /\ options.as.given
    /\ \E d \in Docs :
          /\ pc[d] = "done"
          /\ \E i \in 1..Len(Injected(d)) : FileOf(Injected(d)[i]) = F_TTF

\* C7: with rel "preload", a link carries crossorigin, and then the empty value,
\* exactly when its as value is "font", whether its href is same-origin or not.
C7_FontCrossorigin ==
    options.rel = "preload" =>
        \A tag \in BuiltLinks :
            /\ "as" \in DOMAIN tag.attributes
            /\ (tag.attributes.as.given /\ tag.attributes.as.value = "font")
                   <=> "crossorigin" \in DOMAIN tag.attributes
            /\ "crossorigin" \in DOMAIN tag.attributes => tag.attributes.crossorigin = ""

C7_Witness ==
    /\ options.rel = "preload"
    /\ ~options.as.given
    /\ PublicPath(compilation) = <<>>
    /\ \E d \in Docs :
          /\ pc[d] = "done"
          /\ \E i, j \in 1..Len(Injected(d)) :
                /\ Injected(d)[i].attributes.href = F_TTF
                /\ "crossorigin" \in DOMAIN Injected(d)[i].attributes
                /\ "crossorigin" \notin DOMAIN Injected(d)[j].attributes

\* C8: every before-hook of a non-excluded document replaces the pending list by the
\* list built from that document's descriptor, whatever was pending, and every
\* after-hook of a non-excluded document injects the list pending at that moment;
\* interleaved hook pairs thus give a document the links of another (the witness).
C8_PendingOverwritten ==
    [][\A d \in Docs :
          /\ (BeforeStep(d) /\ ~Excluded(d)) =>
                 resourceHints' = Some(links(options, compilation, htmlPluginData'[d]))
          /\ (AfterStep(d) /\ ~Excluded(d)) =>
                 HeadList(htmlPluginData'[d]) = Pending \o HeadList(htmlPluginData[d])]_vars

C8_Witness ==
    \E a, b \in Docs :
        /\ a # b
        /\ options.include # "allAssets"
        /\ ~Excluded(a) /\ ~Excluded(b)
        /\ pc[a] = "done"
        /\ builtFor = b
        /\ Injected(a) = links(options, compilation, htmlPluginData[b])
        /\ Injected(a) # links(options, compilation, htmlPluginData[a])

\* C9: with include "allAssets" all non-excluded documents get the same injected
\* list, whatever they reference; with any other mode every linked file is a file
\* of a chunk that belongs to the document the list was built for.
C9_AllAssetsSameElseMembers ==
    /\ options.include = "allAssets" =>
          \A d, e \in Docs :
              (pc[d] = "done" /\ pc[e] = "done" /\ ~Excluded(d) /\ ~Excluded(e)) =>
                  /\ Injected(d) = Injected(e)
                  /\ {FileOf(Injected(d)[i]) : i \in 1..Len(Injected(d))} \subseteq Range(Assets)
    /\ (options.include # "allAssets" /\ resourceHints.given) =>
          \A i \in 1..Len(resourceHints.value) :
              \E k \in 1..Len(compilation.chunks) :
                  /\ FileOf(resourceHints.value[i]) \in Range(compilation.chunks[k].files)
                  /\ doesChunkBelongToHTML(compilation.chunks[k], compilation,
                         ObjectValues(htmlPluginData[builtFor].assets.chunks.value))

C9_Witness ==
    /\ options.include = "allAssets"
    /\ \E d, e \in Docs :
          /\ d # e
          /\ pc[d] = "done" /\ pc[e] = "done"
          /\ ~Excluded(d) /\ ~Excluded(e)
          /\ htmlPluginData[d].assets.js # htmlPluginData[e].assets.js
          /\ Len(Injected(d)) > 0
          /\ Injected(d) = Injected(e)

\* C10: on a version >= 4 host the before-hook assigns the synthesized chunk mapping
\* into the descriptor's asset map for every document, excluded or not; for an
\* excluded document it changes nothing else and leaves the pending list as it was.
C10_MergeBeforeExclusion ==
    [][\A d \in Docs :
          (BeforeStep(d) /\ htmlPluginData[d].plugin.version >= 4) =>
              LET old == htmlPluginData[d]
                  new == htmlPluginData'[d]
                  synthesized == reduceChunks(compilation, old, compilation.chunks)
              IN /\ new.assets.chunks.given
                 /\ \A k \in DOMAIN synthesized :
                        /\ k \in DOMAIN new.assets.chunks.value
                        /\ new.assets.chunks.value[k] = synthesized[k]
                 /\ old.assets.chunks.given =>
                        \A k \in (DOMAIN old.assets.chunks.value) \ (DOMAIN synthesized) :
                            /\ k \in DOMAIN new.assets.chunks.value
                            /\ new.assets.chunks.value[k] = old.assets.chunks.value[k]
                 /\ Excluded(d) =>
                        /\ resourceHints' = resourceHints
                        /\ [new EXCEPT !.assets.chunks = old.assets.chunks] = old
                        /\ \A e \in Docs \ {d} : htmlPluginData'[e] = htmlPluginData[e]]_vars

C10_Witness ==
    \E d \in Docs :
        /\ Excluded(d)
        /\ htmlPluginData[d].plugin.version >= 4
        /\ pc[d] = "before"
        /\ htmlPluginData[d].assets.chunks.given
        /\ \E k \in DOMAIN htmlPluginData[d].assets.chunks.value :
              "entry" \in DOMAIN htmlPluginData[d].assets.chunks.value[k]
        /\ Len(Pending) > 0
        /\ builtFor # d

====
